---- MODULE Spec2Model ----
(***************************************************************************)
(* Model of the eureka workflow engine (src/src/lib.rs): Eureka::run and   *)
(* the private methods it calls.  One invocation of the CLI builds a fresh *)
(* Eureka (git = None) and calls run once; the config store outlives the   *)
(* invocation.  The collaborators (config store, printer, reader, program  *)
(* opener, git) are the traits the engine is generic over; every call the  *)
(* engine makes on them is recorded in `calls`, as a recording test double *)
(* would, and their results are chosen nondeterministically.               *)
(***************************************************************************)
EXTENDS Naturals, Sequences, FiniteSets, TLC

\* ---------------------------------------------------------------- bounds
MaxRuns == 2          \* invocations of run in one behaviour
MaxEmptyReads == 3    \* empty lines the reader may yield in the repo-path loop

\* ---------------------------------------------------------------- data
\* Option<T>: None is <<>>, Some(v) is <<v>>
None == <<>>
Some(v) == <<v>>
unwrap(o) == o[1]

Repo == "Repo"
Branch == "Branch"
ConfigFile == {Repo, Branch}

EurekaOptions == [clear_repo : BOOLEAN, clear_branch : BOOLEAN, view : BOOLEAN]

\* lines the reader can yield
Lines == {"", "/x", "dev"}
\* values the config store can hold before the first modelled invocation
InitRepoValues == {"/x", "/repo"}
InitBranchValues == {"main", "master"}

VARIABLES
    config,           \* fh: ConfigFile -> Option<String>
    config_dir,       \* fh: does the config dir exist
    git,              \* Eureka.git : Option<Git>, a Git is its repo path
    opts,             \* the EurekaOptions of the current run
    pc,               \* position of the current run
    result,           \* outcome of the current run
    calls,            \* calls made on the collaborators in the current run
    idea_summary,     \* local of ask_for_idea
    readme_path,      \* local of ask_for_idea
    input_repo_path,  \* local of setup_repo_path
    branch_name,      \* local of git_add_commit_push
    config_at_start,  \* config when the current run was entered
    prev_setup_ok,    \* did the previous run execute Setup and return Ok
    empty_reads,      \* empty lines yielded so far in the repo-path loop
    runs              \* completed invocations

vars == <<config, config_dir, git, opts, pc, result, calls, idea_summary,
          readme_path, input_repo_path, branch_name, config_at_start,
          prev_setup_ok, empty_reads, runs>>

\* a recorded call: operation, config key (or ""), argument (or ""), result
Call(op, key, arg, res) == [op |-> op, key |-> key, arg |-> arg, res |-> res]

OkErr(b) == IF b THEN "Ok" ELSE "Err"

\* ---------------------------------------------------------------- config store
\* config_read is Err exactly for an absent key; file_rm and config_write
\* are the effect of a call that returned Ok, a call that returned Err
\* leaves the store as it was (the caller chooses which of the two happens)
config_read(cfg, key) == cfg[key]
is_err(r) == r = None
file_rm(cfg, key) == [cfg EXCEPT ![key] = None]
config_write(cfg, key, v) == [cfg EXCEPT ![key] = Some(v)]

ReadCall(cfg, key) == Call("config_read", key, "", OkErr(~is_err(config_read(cfg, key))))

\* ---------------------------------------------------------------- helpers of run
\* clear_repo without the read before the removal
clear_repo_NoRead(cfg, rm_ok) ==
    IF rm_ok
    THEN [ok |-> TRUE, cfg |-> file_rm(cfg, Repo), calls |-> <<Call("file_rm", Repo, "", "Ok")>>]
    ELSE [ok |-> FALSE, cfg |-> cfg, calls |-> <<Call("file_rm", Repo, "", "Err")>>]

\* clear_repo removing the whole configuration
clear_repo_Both(cfg, rm_ok) ==
    IF is_err(config_read(cfg, Repo))
    THEN [ok |-> FALSE, cfg |-> cfg, calls |-> <<ReadCall(cfg, Repo)>>]
    ELSE IF rm_ok
    THEN [ok |-> TRUE, cfg |-> file_rm(file_rm(cfg, Repo), Branch),
          calls |-> <<ReadCall(cfg, Repo), Call("file_rm", Repo, "", "Ok")>>]
    ELSE [ok |-> FALSE, cfg |-> cfg,
          calls |-> <<ReadCall(cfg, Repo), Call("file_rm", Repo, "", "Err")>>]

\* clear_branch treating an absent key as nothing to do
clear_branch_Silent(cfg, rm_ok) ==
    IF is_err(config_read(cfg, Branch))
    THEN [ok |-> TRUE, cfg |-> cfg, calls |-> <<ReadCall(cfg, Branch)>>]
    ELSE IF rm_ok
    THEN [ok |-> TRUE, cfg |-> file_rm(cfg, Branch),
          calls |-> <<ReadCall(cfg, Branch), Call("file_rm", Branch, "", "Ok")>>]
    ELSE [ok |-> FALSE, cfg |-> cfg,
          calls |-> <<ReadCall(cfg, Branch), Call("file_rm", Branch, "", "Err")>>]

\* clear_repo / clear_branch: read the key, and_then remove it; the result
\* is the Err of the read, or whatever file_rm returns (rm_ok)
clear_repo(cfg, rm_ok) ==
    IF is_err(config_read(cfg, Repo))
    THEN [ok |-> FALSE, cfg |-> cfg, calls |-> <<ReadCall(cfg, Repo)>>]
    ELSE IF rm_ok
    THEN [ok |-> TRUE, cfg |-> file_rm(cfg, Repo),
          calls |-> <<ReadCall(cfg, Repo), Call("file_rm", Repo, "", "Ok")>>]
    ELSE [ok |-> FALSE, cfg |-> cfg,
          calls |-> <<ReadCall(cfg, Repo), Call("file_rm", Repo, "", "Err")>>]

clear_branch(cfg, rm_ok) ==
    IF is_err(config_read(cfg, Branch))
    THEN [ok |-> FALSE, cfg |-> cfg, calls |-> <<ReadCall(cfg, Branch)>>]
    ELSE IF rm_ok
    THEN [ok |-> TRUE, cfg |-> file_rm(cfg, Branch),
          calls |-> <<ReadCall(cfg, Branch), Call("file_rm", Branch, "", "Ok")>>]
    ELSE [ok |-> FALSE, cfg |-> cfg,
          calls |-> <<ReadCall(cfg, Branch), Call("file_rm", Branch, "", "Err")>>]

\* is_config_missing with && for ||
is_config_missing_And(cfg) ==
    is_err(config_read(cfg, Repo)) /\ is_err(config_read(cfg, Branch))

\* is_config_missing: || short-circuits, Branch is read only if Repo is there
is_config_missing(cfg) ==
    is_err(config_read(cfg, Repo)) \/ is_err(config_read(cfg, Branch))

is_config_missing_calls(cfg) ==
    IF is_err(config_read(cfg, Repo))
    THEN <<ReadCall(cfg, Repo)>>
    ELSE <<ReadCall(cfg, Repo), ReadCall(cfg, Branch)>>

\* the idea file path without its separator
idea_file_NoSlash(repo_path) == repo_path \o "README.md"

\* format!("{}/README.md", repo_path)
idea_file(repo_path) == repo_path \o "/README.md"

\* setup_repo_path without its loop
repo_path_loop_Once(input) == FALSE

\* the loop condition of setup_repo_path
repo_path_loop(input) == input = ""

\* setup_branch_name without its default
branch_or_default_Raw(line) == line

\* the default of setup_branch_name
branch_or_default(line) == IF line = "" THEN "master" ELSE line

\* ---------------------------------------------------------------- Init
TypeOK ==
    /\ DOMAIN config = ConfigFile
    /\ \A k \in ConfigFile : config[k] = None \/ Len(config[k]) = 1
    /\ git = None \/ Len(git) = 1
    /\ config_dir \in BOOLEAN
    /\ opts \in EurekaOptions
    /\ result \in {"none", "Ok", "Err", "panic"}
    /\ runs \in 0..MaxRuns
    /\ prev_setup_ok \in BOOLEAN

Init ==
    /\ config \in [ConfigFile -> {None} \cup {Some(v) : v \in InitRepoValues \cup InitBranchValues}]
    /\ config[Repo] \in {None} \cup {Some(v) : v \in InitRepoValues}
    /\ config[Branch] \in {None} \cup {Some(v) : v \in InitBranchValues}
    /\ config_dir \in BOOLEAN
    /\ (config[Repo] # None \/ config[Branch] # None) => config_dir
    /\ git = None
    /\ opts = [clear_repo |-> FALSE, clear_branch |-> FALSE, view |-> FALSE]
    /\ pc = "idle"
    /\ result = "none"
    /\ calls = <<>>
    /\ idea_summary = ""
    /\ readme_path = ""
    /\ input_repo_path = ""
    /\ branch_name = ""
    /\ config_at_start = config
    /\ prev_setup_ok = FALSE
    /\ empty_reads = 0
    /\ runs = 0

\* ---------------------------------------------------------------- run
locals == <<idea_summary, readme_path, input_repo_path, branch_name>>

\* Eureka::new building the git session eagerly
Start_EagerGit(o) ==
    /\ pc = "idle"
    /\ runs < MaxRuns
    /\ opts' = o
    /\ git' = IF is_err(config_read(config, Repo)) THEN None
              ELSE Some(unwrap(config_read(config, Repo)))
    /\ result' = "none"
    /\ calls' = <<>>
    /\ idea_summary' = ""
    /\ readme_path' = ""
    /\ input_repo_path' = ""
    /\ branch_name' = ""
    /\ config_at_start' = config
    /\ prev_setup_ok' = (result = "Ok" /\ \E i \in 1..Len(calls) : calls[i].op = "config_dir_exists")
    /\ empty_reads' = 0
    /\ pc' = IF o.clear_repo \/ o.clear_branch THEN "clear_repo" ELSE "view"
    /\ UNCHANGED <<config, config_dir, runs>>

\* Eureka::new followed by the entry of run
Start(o) ==
    /\ pc = "idle"
    /\ runs < MaxRuns
    /\ opts' = o
    /\ git' = None
    /\ result' = "none"
    /\ calls' = <<>>
    /\ idea_summary' = ""
    /\ readme_path' = ""
    /\ input_repo_path' = ""
    /\ branch_name' = ""
    /\ config_at_start' = config
    /\ prev_setup_ok' = (result = "Ok" /\ \E i \in 1..Len(calls) : calls[i].op = "config_dir_exists")
    /\ empty_reads' = 0
    /\ pc' = IF o.clear_repo \/ o.clear_branch THEN "clear_repo" ELSE "view"
    /\ UNCHANGED <<config, config_dir, runs>>

\* the clear block going on to clear_branch after a failed clear_repo
ClearRepo_KeepGoing ==
    /\ pc = "clear_repo"
    /\ IF opts.clear_repo
       THEN \E rm_ok \in BOOLEAN : LET r == clear_repo(config, rm_ok) IN
            /\ config' = r.cfg
            /\ calls' = calls \o r.calls
            /\ result' = IF r.ok THEN result ELSE "Err"
            /\ pc' = IF r.ok \/ opts.clear_branch THEN "clear_branch" ELSE "done"
       ELSE pc' = "clear_branch" /\ UNCHANGED <<config, calls, result>>
    /\ UNCHANGED <<config_dir, git, opts, locals, config_at_start, prev_setup_ok, empty_reads, runs>>

\* if opts.clear_repo { self.clear_repo()?; }
ClearRepo ==
    /\ pc = "clear_repo"
    /\ IF opts.clear_repo
       THEN \E rm_ok \in BOOLEAN : LET r == clear_repo(config, rm_ok) IN
            /\ config' = r.cfg
            /\ calls' = calls \o r.calls
            /\ IF r.ok
               THEN pc' = "clear_branch" /\ UNCHANGED result
               ELSE pc' = "done" /\ result' = "Err"
       ELSE pc' = "clear_branch" /\ UNCHANGED <<config, calls, result>>
    /\ UNCHANGED <<config_dir, git, opts, locals, config_at_start, prev_setup_ok, empty_reads, runs>>

\* the clear block without its return
ClearBranch_FallThrough ==
    /\ pc = "clear_branch"
    /\ IF opts.clear_branch
       THEN \E rm_ok \in BOOLEAN : LET r == clear_branch(config, rm_ok) IN
            /\ config' = r.cfg
            /\ calls' = calls \o r.calls
            /\ IF r.ok
               THEN pc' = "view" /\ UNCHANGED result
               ELSE pc' = "done" /\ result' = "Err"
       ELSE pc' = "view" /\ UNCHANGED <<config, calls, result>>
    /\ UNCHANGED <<config_dir, git, opts, locals, config_at_start, prev_setup_ok, empty_reads, runs>>

\* if opts.clear_branch { self.clear_branch()?; }  return Ok(());
ClearBranch ==
    /\ pc = "clear_branch"
    /\ IF opts.clear_branch
       THEN \E rm_ok \in BOOLEAN : LET r == clear_branch(config, rm_ok) IN
            /\ config' = r.cfg
            /\ calls' = calls \o r.calls
            /\ result' = OkErr(r.ok)
       ELSE result' = "Ok" /\ UNCHANGED <<config, calls>>
    /\ pc' = "done"
    /\ UNCHANGED <<config_dir, git, opts, locals, config_at_start, prev_setup_ok, empty_reads, runs>>

\* view as an exclusive command: run returns after the pager
View_Exclusive ==
    /\ pc = "view"
    /\ IF opts.view
       THEN IF is_err(config_read(config, Repo))
            THEN /\ calls' = Append(calls, ReadCall(config, Repo))
                 /\ result' = "Err"
                 /\ pc' = "done"
            ELSE \E ok \in BOOLEAN :
                 /\ calls' = calls \o <<ReadCall(config, Repo),
                        Call("open_pager", "", idea_file(unwrap(config_read(config, Repo))), OkErr(ok))>>
                 /\ pc' = "done"
                 /\ result' = OkErr(ok)
       ELSE pc' = "dispatch" /\ UNCHANGED <<calls, result>>
    /\ UNCHANGED <<config, config_dir, git, opts, locals, config_at_start, prev_setup_ok, empty_reads, runs>>

\* view whose failure is not propagated
View_IgnoreFailure ==
    /\ pc = "view"
    /\ IF opts.view
       THEN IF is_err(config_read(config, Repo))
            THEN /\ calls' = Append(calls, ReadCall(config, Repo))
                 /\ pc' = "dispatch"
            ELSE \E ok \in BOOLEAN :
                 /\ calls' = calls \o <<ReadCall(config, Repo),
                        Call("open_pager", "", idea_file(unwrap(config_read(config, Repo))), OkErr(ok))>>
                 /\ pc' = "dispatch"
       ELSE pc' = "dispatch" /\ UNCHANGED calls
    /\ UNCHANGED <<config, config_dir, git, opts, result, locals, config_at_start, prev_setup_ok, empty_reads, runs>>

\* if opts.view { self.open_idea_file()? }
View ==
    /\ pc = "view"
    /\ IF opts.view
       THEN IF is_err(config_read(config, Repo))
            THEN /\ calls' = Append(calls, ReadCall(config, Repo))
                 /\ result' = "Err"
                 /\ pc' = "done"
            ELSE \E ok \in BOOLEAN :
                 /\ calls' = calls \o <<ReadCall(config, Repo),
                        Call("open_pager", "", idea_file(unwrap(config_read(config, Repo))), OkErr(ok))>>
                 /\ IF ok
                    THEN pc' = "dispatch" /\ UNCHANGED result
                    ELSE pc' = "done" /\ result' = "Err"
       ELSE pc' = "dispatch" /\ UNCHANGED <<calls, result>>
    /\ UNCHANGED <<config, config_dir, git, opts, locals, config_at_start, prev_setup_ok, empty_reads, runs>>

\* the dispatch wiping an incomplete configuration before Setup
Dispatch_Reset ==
    /\ pc = "dispatch"
    /\ calls' = calls \o is_config_missing_calls(config)
    /\ pc' = IF is_config_missing(config) THEN "setup_dir" ELSE "ask_for_idea"
    /\ config' = IF is_config_missing(config) THEN [k \in ConfigFile |-> None] ELSE config
    /\ UNCHANGED <<config_dir, git, opts, result, locals, config_at_start, prev_setup_ok, empty_reads, runs>>

\* if self.is_config_missing() { ... } else { self.ask_for_idea(); }
Dispatch ==
    /\ pc = "dispatch"
    /\ calls' = calls \o is_config_missing_calls(config)
    /\ pc' = IF is_config_missing(config) THEN "setup_dir" ELSE "ask_for_idea"
    /\ UNCHANGED <<config, config_dir, git, opts, result, locals, config_at_start, prev_setup_ok, empty_reads, runs>>

\* if !self.fh.config_dir_exists() { self.fh.config_dir_create()?; }
\* self.printer.fts_banner();
SetupDir ==
    /\ pc = "setup_dir"
    /\ IF ~config_dir
       THEN \E ok \in BOOLEAN :
            /\ config_dir' = ok
            /\ IF ok
               THEN /\ calls' = calls \o <<Call("config_dir_exists", "", "", "false"),
                                           Call("config_dir_create", "", "", "Ok"),
                                           Call("fts_banner", "", "", "")>>
                    /\ pc' = "setup_repo"
                    /\ UNCHANGED result
               ELSE /\ calls' = calls \o <<Call("config_dir_exists", "", "", "false"),
                                           Call("config_dir_create", "", "", "Err")>>
                    /\ pc' = "done"
                    /\ result' = "Err"
       ELSE /\ calls' = calls \o <<Call("config_dir_exists", "", "", "true"),
                                   Call("fts_banner", "", "", "")>>
            /\ pc' = "setup_repo"
            /\ UNCHANGED <<config_dir, result>>
    /\ UNCHANGED <<config, git, opts, locals, config_at_start, prev_setup_ok, empty_reads, runs>>

\* the repository-path step without its check of the key
SetupRepo_Always ==
    /\ pc = "setup_repo"
    /\ calls' = Append(calls, ReadCall(config, Repo))
    /\ pc' = "repo_loop"
    /\ UNCHANGED <<config, config_dir, git, opts, result, locals, config_at_start, prev_setup_ok, empty_reads, runs>>

\* if self.fh.config_read(Repo).is_err() { self.setup_repo_path()?; }
SetupRepo ==
    /\ pc = "setup_repo"
    /\ calls' = Append(calls, ReadCall(config, Repo))
    /\ pc' = IF is_err(config_read(config, Repo)) THEN "repo_loop" ELSE "setup_branch"
    /\ UNCHANGED <<config, config_dir, git, opts, result, locals, config_at_start, prev_setup_ok, empty_reads, runs>>

\* one iteration of the loop of setup_repo_path: prompt and read a line
RepoLoop ==
    /\ pc = "repo_loop"
    /\ \E line \in Lines :
        /\ line = "" => empty_reads < MaxEmptyReads
        /\ calls' = calls \o <<Call("input_header", "", "Absolute path to your idea repo", ""),
                               Call("read_input", "", "", line)>>
        /\ input_repo_path' = line
        /\ empty_reads' = IF line = "" THEN empty_reads + 1 ELSE empty_reads
        /\ pc' = IF repo_path_loop(line) THEN "repo_loop" ELSE "repo_write"
    /\ UNCHANGED <<config, config_dir, git, opts, result, idea_summary, readme_path,
                   branch_name, config_at_start, prev_setup_ok, runs>>

\* the repository-path write whose failure is dropped
RepoWrite_IgnoreErr ==
    /\ pc = "repo_write"
    /\ \E ok \in BOOLEAN :
        /\ calls' = Append(calls, Call("config_write", Repo, input_repo_path, OkErr(ok)))
        /\ config' = IF ok THEN config_write(config, Repo, input_repo_path) ELSE config
        /\ pc' = "setup_branch"
        /\ UNCHANGED result
    /\ UNCHANGED <<config_dir, git, opts, locals, config_at_start, prev_setup_ok, empty_reads, runs>>

\* self.fh.config_write(Repo, input_repo_path)
RepoWrite ==
    /\ pc = "repo_write"
    /\ \E ok \in BOOLEAN :
        /\ calls' = Append(calls, Call("config_write", Repo, input_repo_path, OkErr(ok)))
        /\ IF ok
           THEN /\ config' = config_write(config, Repo, input_repo_path)
                /\ pc' = "setup_branch"
                /\ UNCHANGED result
           ELSE /\ pc' = "done"
                /\ result' = "Err"
                /\ UNCHANGED config
    /\ UNCHANGED <<config_dir, git, opts, locals, config_at_start, prev_setup_ok, empty_reads, runs>>

\* the branch step reporting Ok without storing the value
SetupBranch_NoStore ==
    /\ pc = "setup_branch"
    /\ IF is_err(config_read(config, Branch))
       THEN \E line \in Lines :
            /\ calls' = calls \o <<ReadCall(config, Branch),
                                   Call("input_header", "", "Name of branch (default: master)", ""),
                                   Call("read_input", "", "", line)>>
            /\ pc' = "setup_complete"
       ELSE /\ calls' = Append(calls, ReadCall(config, Branch))
            /\ pc' = "setup_complete"
    /\ UNCHANGED <<config, result, config_dir, git, opts, locals, config_at_start, prev_setup_ok, empty_reads, runs>>

\* if self.fh.config_read(Branch).is_err() { self.setup_branch_name()?; }
SetupBranch ==
    /\ pc = "setup_branch"
    /\ IF is_err(config_read(config, Branch))
       THEN \E line \in Lines, ok \in BOOLEAN :
            /\ calls' = calls \o <<ReadCall(config, Branch),
                                   Call("input_header", "", "Name of branch (default: master)", ""),
                                   Call("read_input", "", "", line),
                                   Call("config_write", Branch, branch_or_default(line), OkErr(ok))>>
            /\ IF ok
               THEN /\ config' = config_write(config, Branch, branch_or_default(line))
                    /\ pc' = "setup_complete"
                    /\ UNCHANGED result
               ELSE /\ pc' = "done"
                    /\ result' = "Err"
                    /\ UNCHANGED config
       ELSE /\ calls' = Append(calls, ReadCall(config, Branch))
            /\ pc' = "setup_complete"
            /\ UNCHANGED <<config, result>>
    /\ UNCHANGED <<config_dir, git, opts, locals, config_at_start, prev_setup_ok, empty_reads, runs>>

\* self.printer.print("First time setup complete. Happy ideation!");  Ok(())
SetupComplete ==
    /\ pc = "setup_complete"
    /\ calls' = Append(calls, Call("print", "", "First time setup complete. Happy ideation!", ""))
    /\ result' = "Ok"
    /\ pc' = "done"
    /\ UNCHANGED <<config, config_dir, git, opts, locals, config_at_start, prev_setup_ok, empty_reads, runs>>

\* ask_for_idea without its call of init_git
AskForIdea_NoInit ==
    /\ pc = "ask_for_idea"
    /\ \E line \in Lines :
        /\ idea_summary' = line
        /\ IF is_err(config_read(config, Repo))
           THEN /\ calls' = calls \o <<Call("input_header", "", ">> Idea summary", ""),
                                       Call("read_input", "", "", line),
                                       ReadCall(config, Repo)>>
                /\ result' = "panic"
                /\ pc' = "done"
                /\ UNCHANGED readme_path
           ELSE /\ readme_path' = idea_file(unwrap(config_read(config, Repo)))
                /\ calls' = calls \o <<Call("input_header", "", ">> Idea summary", ""),
                                       Call("read_input", "", "", line),
                                       ReadCall(config, Repo)>>
                /\ pc' = "open_editor"
                /\ UNCHANGED result
    /\ UNCHANGED <<config, config_dir, git, opts, input_repo_path, branch_name,
                   config_at_start, prev_setup_ok, empty_reads, runs>>

\* ask_for_idea up to and including init_git
AskForIdea ==
    /\ pc = "ask_for_idea"
    /\ \E line \in Lines :
        /\ idea_summary' = line
        /\ IF is_err(config_read(config, Repo))
           THEN /\ calls' = calls \o <<Call("input_header", "", ">> Idea summary", ""),
                                       Call("read_input", "", "", line),
                                       ReadCall(config, Repo)>>
                /\ result' = "panic"
                /\ pc' = "done"
                /\ UNCHANGED <<readme_path, git>>
           ELSE LET repo_path == unwrap(config_read(config, Repo)) IN
                /\ readme_path' = idea_file(repo_path)
                /\ git' = Some(repo_path)
                /\ calls' = calls \o <<Call("input_header", "", ">> Idea summary", ""),
                                       Call("read_input", "", "", line),
                                       ReadCall(config, Repo),
                                       ReadCall(config, Repo),
                                       Call("Git::new", "", repo_path, "")>>
                /\ pc' = "open_editor"
                /\ UNCHANGED result
    /\ UNCHANGED <<config, config_dir, opts, input_repo_path, branch_name,
                   config_at_start, prev_setup_ok, empty_reads, runs>>

\* open_editor whose failure is ignored
OpenEditor_Ignore ==
    /\ pc = "open_editor"
    /\ \E ok \in BOOLEAN :
        /\ calls' = Append(calls, Call("open_editor", "", readme_path, OkErr(ok)))
        /\ pc' = "git_checkout"
        /\ UNCHANGED result
    /\ UNCHANGED <<config, config_dir, git, opts, locals, config_at_start, prev_setup_ok, empty_reads, runs>>

\* match self.program_opener.open_editor(&readme_path) { Ok(_) => ..., Err(e) => panic!(e) }
OpenEditor ==
    /\ pc = "open_editor"
    /\ \E ok \in BOOLEAN :
        /\ calls' = Append(calls, Call("open_editor", "", readme_path, OkErr(ok)))
        /\ IF ok
           THEN pc' = "git_checkout" /\ UNCHANGED result
           ELSE pc' = "done" /\ result' = "panic"
    /\ UNCHANGED <<config, config_dir, git, opts, locals, config_at_start, prev_setup_ok, empty_reads, runs>>

\* git_add_commit_push up to and including git.checkout_branch(..).expect(..)
GitCheckout ==
    /\ pc = "git_checkout"
    /\ IF git = None
       THEN /\ result' = "panic"
            /\ pc' = "done"
            /\ UNCHANGED <<calls, branch_name>>
       ELSE IF is_err(config_read(config, Branch))
       THEN /\ calls' = calls \o <<Call("println", "", "Adding and committing your new idea..", ""),
                                   ReadCall(config, Branch)>>
            /\ result' = "panic"
            /\ pc' = "done"
            /\ UNCHANGED branch_name
       ELSE \E ok \in BOOLEAN :
            /\ branch_name' = unwrap(config_read(config, Branch))
            /\ calls' = calls \o <<Call("println", "", "Adding and committing your new idea..", ""),
                                   ReadCall(config, Branch),
                                   Call("checkout_branch", "", branch_name', OkErr(ok))>>
            /\ IF ok
               THEN pc' = "git_add" /\ UNCHANGED result
               ELSE pc' = "done" /\ result' = "panic"
    /\ UNCHANGED <<config, config_dir, git, opts, idea_summary, readme_path,
                   input_repo_path, config_at_start, prev_setup_ok, empty_reads, runs>>

\* add followed by push, the commit left out
GitAdd_SkipCommit ==
    /\ pc = "git_add"
    /\ \E ok \in BOOLEAN :
        /\ calls' = Append(calls, Call("add", "", "", OkErr(ok)))
        /\ IF ok
           THEN pc' = "git_push" /\ UNCHANGED result
           ELSE pc' = "done" /\ result' = "panic"
    /\ UNCHANGED <<config, config_dir, git, opts, locals, config_at_start, prev_setup_ok, empty_reads, runs>>

\* git.add(): an Err skips the and_then closure and reaches expect
GitAdd ==
    /\ pc = "git_add"
    /\ \E ok \in BOOLEAN :
        /\ calls' = Append(calls, Call("add", "", "", OkErr(ok)))
        /\ IF ok
           THEN pc' = "git_commit" /\ UNCHANGED result
           ELSE pc' = "done" /\ result' = "panic"
    /\ UNCHANGED <<config, config_dir, git, opts, locals, config_at_start, prev_setup_ok, empty_reads, runs>>

\* commit whose failure is not escalated
GitCommit_Swallow ==
    /\ pc = "git_commit"
    /\ \E ok \in BOOLEAN :
        /\ calls' = calls \o <<Call("commit", "", idea_summary, OkErr(ok)),
                               Call("println", "", "Added and committed!", "")>>
        /\ pc' = "git_push"
        /\ UNCHANGED result
    /\ UNCHANGED <<config, config_dir, git, opts, locals, config_at_start, prev_setup_ok, empty_reads, runs>>

\* .and_then(|_| git.commit(commit_subject)).expect(..); println("Added and committed!")
GitCommit ==
    /\ pc = "git_commit"
    /\ \E ok \in BOOLEAN :
        IF ok
        THEN /\ calls' = calls \o <<Call("commit", "", idea_summary, "Ok"),
                                    Call("println", "", "Added and committed!", "")>>
             /\ pc' = "git_push"
             /\ UNCHANGED result
        ELSE /\ calls' = Append(calls, Call("commit", "", idea_summary, "Err"))
             /\ pc' = "done"
             /\ result' = "panic"
    /\ UNCHANGED <<config, config_dir, git, opts, locals, config_at_start, prev_setup_ok, empty_reads, runs>>

\* println("Pushing.."); git.push(&*branch_name).expect(..); println("Pushed!"); Ok(())
GitPush ==
    /\ pc = "git_push"
    /\ \E ok \in BOOLEAN :
        IF ok
        THEN /\ calls' = calls \o <<Call("println", "", "Pushing your new idea..", ""),
                                    Call("push", "", branch_name, "Ok"),
                                    Call("println", "", "Pushed!", "")>>
             /\ result' = "Ok"
        ELSE /\ calls' = calls \o <<Call("println", "", "Pushing your new idea..", ""),
                                    Call("push", "", branch_name, "Err")>>
             /\ result' = "panic"
    /\ pc' = "done"
    /\ UNCHANGED <<config, config_dir, git, opts, locals, config_at_start, prev_setup_ok, empty_reads, runs>>

\* the invocation is over; the config store stays for the next one
Finish ==
    /\ pc = "done"
    /\ pc' = "idle"
    /\ runs' = runs + 1
    /\ UNCHANGED <<config, config_dir, git, opts, result, calls, locals,
                   config_at_start, prev_setup_ok, empty_reads>>

Next ==
    \/ \E o \in EurekaOptions : Start(o)
    \/ ClearRepo
    \/ ClearBranch
    \/ View
    \/ Dispatch
    \/ SetupDir
    \/ SetupRepo
    \/ RepoLoop
    \/ RepoWrite
    \/ SetupBranch
    \/ SetupComplete
    \/ AskForIdea
    \/ OpenEditor
    \/ GitCheckout
    \/ GitAdd
    \/ GitCommit
    \/ GitPush
    \/ Finish

Spec == Init /\ [][Next]_vars

\* ---------------------------------------------------------------- reading the recorded calls
Idx == 1..Len(calls)
GitOps == {"checkout_branch", "add", "commit", "push"}
GitCalls == SelectSeq(calls, LAMBDA c : c.op \in GitOps)
HasCall(op) == \E i \in Idx : calls[i].op = op
Count(op) == Cardinality({i \in Idx : calls[i].op = op})
OpArg(s) == [i \in 1..Len(s) |-> <<s[i].op, s[i].arg>>]
Ended == pc = "done"
EditorOk == \E i \in Idx : calls[i].op = "open_editor" /\ calls[i].res = "Ok"
EditorFailed == \E i \in Idx : calls[i].op = "open_editor" /\ calls[i].res = "Err"
GitFailed == \E i \in Idx : calls[i].op \in GitOps /\ calls[i].res = "Err"
SummaryRead ==
    {i \in Idx : /\ i > 1
                 /\ calls[i].op = "read_input"
                 /\ calls[i-1].op = "input_header"
                 /\ calls[i-1].arg = ">> Idea summary"}

IsPrefix(s, t) == Len(s) <= Len(t) /\ \A i \in 1..Len(s) : s[i] = t[i]
ExpectedGitCalls(s) ==
    << <<"checkout_branch", unwrap(config_at_start[Branch])>>,
       <<"add", "">>,
       <<"commit", s>>,
       <<"push", unwrap(config_at_start[Branch])>> >>

\* C1: in a capture run whose editor succeeded, the config was complete, the
\* summary line s was read exactly once (the empty line included) and the
\* git calls made so far are an initial part of checkout(b), add(),
\* commit(s), push(b), b being the configured branch; when the run is over
\* and no git operation failed, the git calls are exactly these four, in
\* that order, each once, and run returned Ok.
C1_CaptureSequence ==
    /\ EditorOk =>
          /\ config_at_start[Repo] # None /\ config_at_start[Branch] # None
          /\ Count("read_input") = 1
          /\ Cardinality(SummaryRead) = 1
          /\ \A i \in SummaryRead : IsPrefix(OpArg(GitCalls), ExpectedGitCalls(calls[i].res))
    /\ (Ended /\ EditorOk /\ ~GitFailed) =>
          /\ \A i \in SummaryRead : OpArg(GitCalls) = ExpectedGitCalls(calls[i].res)
          /\ result = "Ok"

C1_Witness ==
    /\ Ended /\ EditorOk /\ result = "Ok"
    /\ Len(GitCalls) = 4
    /\ GitCalls[3].op = "commit" /\ GitCalls[3].arg = ""

\* C2: a failed git operation is the last recorded call of its run (no later
\* git operation, no later confirmation line), the run ends in a panic, not
\* in Ok or Err, and no git operation is invoked twice in a run.
C2_GitFailStop ==
    /\ \A i \in Idx : (calls[i].op \in GitOps /\ calls[i].res = "Err") =>
            /\ i = Len(calls)
            /\ pc \in {"done", "idle"}
            /\ result = "panic"
    /\ \A op \in GitOps : Count(op) <= 1

C2_Witness ==
    /\ Ended
    /\ \E i \in Idx : calls[i].op = "commit" /\ calls[i].res = "Err"
    /\ ~HasCall("push")

\* C3: once open_editor has failed, the run has invoked no git operation,
\* is over, and ended in a panic.
C3_EditorFailure ==
    EditorFailed =>
        /\ GitCalls = <<>>
        /\ pc \in {"done", "idle"}
        /\ result = "panic"

C3_Witness == Ended /\ EditorFailed /\ HasCall("Git::new")

\* C4: in a run with clear_repo set that found RepositoryPath absent, no key
\* is ever removed (config stays as it was at the start, file_rm is never
\* called) and the run returns Err.
C4_ClearRepoAbsent ==
    (opts.clear_repo /\ config_at_start[Repo] = None) =>
        /\ config = config_at_start
        /\ ~HasCall("file_rm")
        /\ pc \in {"done", "idle"} => result = "Err"

C4_Witness ==
    /\ Ended /\ opts.clear_repo /\ opts.clear_branch /\ opts.view
    /\ config_at_start[Repo] = None /\ config_at_start[Branch] # None
\* C5 as stated: a finished run with clear_repo set that found RepositoryPath
\* present has removed RepositoryPath and left BranchName as it was,
\* whatever clear_branch is.
C5_AsStated ==
    (Ended /\ opts.clear_repo /\ config_at_start[Repo] # None) =>
        /\ config[Repo] = None
        /\ config[Branch] = config_at_start[Branch]

RmFailed(key) ==
    \E i \in Idx : calls[i].op = "file_rm" /\ calls[i].key = key /\ calls[i].res = "Err"

\* C5 amended: a finished run with clear_repo set that found RepositoryPath
\* present has called file_rm on it exactly once.  If that call returned Ok,
\* RepositoryPath is removed, and BranchName is as it was if clear_branch is
\* not set (the run then returns Ok after this one removal), while with
\* clear_branch set BranchName is absent unless its own removal failed.  If
\* the call returned Err, the run returns Err, both keys are as they were
\* and BranchName was not touched.
C5_ClearRepoPresent ==
    (Ended /\ opts.clear_repo /\ config_at_start[Repo] # None) =>
        /\ Cardinality({i \in Idx : calls[i].op = "file_rm" /\ calls[i].key = Repo}) = 1
        /\ IF RmFailed(Repo)
           THEN /\ result = "Err"
                /\ config = config_at_start
                /\ Len(calls) = 2
           ELSE /\ config[Repo] = None
                /\ IF opts.clear_branch
                   THEN \/ config[Branch] = None
                        \/ RmFailed(Branch) /\ config[Branch] = config_at_start[Branch]
                   ELSE /\ config[Branch] = config_at_start[Branch]
                        /\ Count("file_rm") = 1
                        /\ result = "Ok"

C5_Witness ==
    /\ Ended /\ opts.clear_repo /\ ~opts.clear_branch /\ opts.view
    /\ config_at_start[Repo] # None /\ config_at_start[Branch] # None
    /\ config[Repo] = None /\ config[Branch] # None

FlagKeyHandled(key) ==
    IF config_at_start[key] # None THEN config[key] = None ELSE result = "Err"

\* C6 as stated: in a finished run with a clear flag set, each set flag's
\* key is removed if it was present at the start and the run returns Err if
\* it was absent, whatever the other key is.
C6_AsStated ==
    (Ended /\ (opts.clear_repo \/ opts.clear_branch)) =>
        /\ opts.clear_repo => FlagKeyHandled(Repo)
        /\ opts.clear_branch => FlagKeyHandled(Branch)

FlagKeyCleared(key) ==
    IF config_at_start[key] = None THEN result = "Err"
    ELSE IF RmFailed(key) THEN result = "Err" /\ config[key] = config_at_start[key]
    ELSE config[key] = None

\* C6 amended: for clear_repo, the run returns Err if RepositoryPath was
\* absent, returns Err with the key kept if its removal failed, and has
\* removed the key otherwise; the same holds of clear_branch and BranchName
\* unless clear_repo is set and failed (key absent or removal failed), in
\* which case the run returns Err and BranchName is neither read nor
\* removed.  The run returns Ok iff every set flag's key was present and no
\* removal failed.
C6_ClearEachFlag ==
    (Ended /\ (opts.clear_repo \/ opts.clear_branch)) =>
        /\ opts.clear_repo => FlagKeyCleared(Repo)
        /\ (opts.clear_branch /\ (~opts.clear_repo
                                   \/ (config_at_start[Repo] # None /\ ~RmFailed(Repo))))
              => FlagKeyCleared(Branch)
        /\ (opts.clear_branch /\ opts.clear_repo
              /\ (config_at_start[Repo] = None \/ RmFailed(Repo)))
              => /\ result = "Err"
                 /\ config[Branch] = config_at_start[Branch]
                 /\ \A i \in Idx : calls[i].key # Branch
        /\ result \in {"Ok", "Err"}
        /\ result = "Ok" <=>
              /\ opts.clear_repo => config_at_start[Repo] # None
              /\ opts.clear_branch => config_at_start[Branch] # None
              /\ ~RmFailed(Repo) /\ ~RmFailed(Branch)

C6_Witness ==
    /\ Ended /\ opts.clear_branch /\ ~opts.clear_repo
    /\ config_at_start[Branch] = None /\ config_at_start[Repo] # None
    /\ result = "Err"

\* C7: a run with a clear flag set calls nothing but config_read and file_rm
\* on the two keys: no pager, editor, banner, print, prompt, read of a line,
\* config write, config dir call or git call, the git session stays empty
\* and the config dir is as it was, whether the run returns Ok or Err.
C7_ClearShortCircuit ==
    (opts.clear_repo \/ opts.clear_branch) =>
        /\ \A i \in Idx : calls[i].op \in {"config_read", "file_rm"}
        /\ git = None
        /\ pc \in {"clear_repo", "clear_branch", "done", "idle"}
        /\ \A k \in ConfigFile : config[k] \in {None, config_at_start[k]}
        /\ Ended => result \in {"Ok", "Err"}

C7_Witness ==
    /\ Ended /\ opts.clear_branch /\ opts.view /\ result = "Ok"
    /\ config[Repo] # None /\ config[Branch] = None
    /\ Len(calls) = 2
ViewFailed ==
    opts.view /\ (config_at_start[Repo] = None
                   \/ \E i \in Idx : calls[i].op = "open_pager" /\ calls[i].res = "Err")
SetupRan == HasCall("config_dir_exists")
CaptureRan == \E i \in Idx : calls[i].op = "input_header" /\ calls[i].arg = ">> Idea summary"
CaptureSteps ==
    CaptureRan \/ HasCall("open_editor") \/ HasCall("Git::new") \/ GitCalls # <<>> \/ git # None

\* C8: a finished run without clear flags whose view step did not fail ran
\* exactly one of Setup and Capture, Setup iff a key was absent when the run
\* was dispatched; and a run that entered Setup has, at every later point
\* of it, made no idea prompt, editor call, git session or git call, also
\* when it ends with both keys present.
C8_SetupXorCapture ==
    /\ (Ended /\ ~opts.clear_repo /\ ~opts.clear_branch /\ ~ViewFailed) =>
          /\ SetupRan # CaptureRan
          /\ SetupRan <=> (config_at_start[Repo] = None \/ config_at_start[Branch] = None)
          /\ CaptureRan <=> (config_at_start[Repo] # None /\ config_at_start[Branch] # None)
    /\ SetupRan => ~CaptureSteps
    /\ SetupRan => pc \notin {"ask_for_idea", "open_editor", "git_checkout", "git_add",
                               "git_commit", "git_push"}

C8_Witness ==
    /\ Ended /\ SetupRan /\ result = "Ok" /\ opts.view
    /\ config_at_start[Branch] = None
    /\ config[Repo] # None /\ config[Branch] # None

RepoPrompts ==
    {i \in Idx : calls[i].op = "input_header" /\ calls[i].arg = "Absolute path to your idea repo"}
RepoReads == {i \in Idx : calls[i].op = "read_input" /\ (i - 1) \in RepoPrompts}
RepoWrites == {i \in Idx : calls[i].op = "config_write" /\ calls[i].key = Repo}

\* C9: in the repository-path step every prompt is followed by one read;
\* while only empty lines were read the loop goes on, nothing is written
\* and the config is as at the start; the first non-empty line v ends the
\* loop, so after k empty lines there are exactly k+1 prompts and reads,
\* and the one write under RepositoryPath carries v; the stored
\* RepositoryPath is never the empty string.
C9_RepoPathLoop ==
    /\ Cardinality(RepoPrompts) = Cardinality(RepoReads)
    /\ \A i \in RepoReads :
          IF calls[i].res = ""
          THEN \/ pc = "repo_loop" /\ i = Len(calls)
               \/ (i + 1) \in RepoPrompts
          ELSE /\ \A j \in RepoReads : j < i => calls[j].res = ""
               /\ \A j \in RepoReads : j <= i
               /\ Cardinality(RepoReads) = empty_reads + 1
               /\ pc # "repo_loop"
               /\ pc = "repo_write" => (i = Len(calls) /\ input_repo_path = calls[i].res)
               /\ pc # "repo_write" => (i + 1) \in RepoWrites
    /\ (\A i \in RepoReads : calls[i].res = "") => RepoWrites = {}
    /\ (RepoReads # {} /\ \A i \in RepoReads : calls[i].res = "") =>
          /\ config = config_at_start
          /\ pc = "repo_loop"
          /\ Cardinality(RepoReads) = empty_reads
          /\ ~HasCall("config_write")
    /\ \A i \in RepoWrites :
          /\ (i - 1) \in RepoReads
          /\ calls[i].arg = calls[i-1].res
          /\ calls[i].arg # ""
          /\ calls[i].res = "Ok" => config[Repo] = Some(calls[i].arg)
    /\ Cardinality(RepoWrites) <= 1
    /\ config[Repo] # Some("")

C9_Witness ==
    /\ pc = "setup_branch"
    /\ Cardinality(RepoReads) = 4
    /\ Cardinality(RepoPrompts) = 4
    /\ empty_reads = 3
    /\ config_at_start[Repo] = None
    /\ config[Repo] = Some("/x")

BranchPrompts ==
    {i \in Idx : calls[i].op = "input_header" /\ calls[i].arg = "Name of branch (default: master)"}
BranchWrites == {i \in Idx : calls[i].op = "config_write" /\ calls[i].key = Branch}

\* C10: once the branch step of a Setup run that found BranchName absent is
\* over, the branch prompt was issued exactly once and exactly one line was
\* read after it; the value written under BranchName is "master" if that
\* line is empty and the line itself otherwise, and it is the stored value
\* if the write succeeded.
C10_BranchDefault ==
    /\ Cardinality(BranchPrompts) <= 1
    /\ \A i \in BranchPrompts :
          /\ i + 2 = Len(calls) \/ (i + 3 = Len(calls) /\ calls[i+3].op = "print")
          /\ calls[i+1].op = "read_input"
          /\ (i + 2) \in BranchWrites
          /\ calls[i+2].arg = (IF calls[i+1].res = "" THEN "master" ELSE calls[i+1].res)
          /\ calls[i+2].res = "Ok" => config[Branch] = Some(calls[i+2].arg)
    /\ \A i \in BranchWrites : (i - 2) \in BranchPrompts
    /\ (SetupRan /\ config_at_start[Branch] = None /\ (pc = "setup_complete" \/ HasCall("print")))
          => Cardinality(BranchPrompts) = 1

C10_Witness ==
    /\ pc = "setup_complete"
    /\ config_at_start[Branch] = None
    /\ config[Branch] = Some("master")
    /\ \E i \in BranchPrompts : calls[i+1].res = ""
\* C11: in a Setup run a key that was present at the start is neither
\* prompted for nor written and keeps its value; a Setup run that found
\* only BranchName absent and got past the branch step made the branch
\* prompt only and read one line, and a Setup run that found only
\* RepositoryPath absent and got past the repository-path step made the
\* repository-path prompt only.
C11_PresentKeySkipped ==
    SetupRan =>
        /\ config_at_start[Repo] # None =>
              /\ RepoPrompts = {} /\ RepoWrites = {}
              /\ config[Repo] = config_at_start[Repo]
        /\ config_at_start[Branch] # None =>
              /\ BranchPrompts = {} /\ BranchWrites = {}
              /\ config[Branch] = config_at_start[Branch]
        /\ (config_at_start[Repo] # None /\ HasCall("print")) =>
              /\ Cardinality(BranchPrompts) = 1
              /\ Count("input_header") = 1 /\ Count("read_input") = 1
              /\ Count("config_write") = 1
        /\ (config_at_start[Branch] # None /\ HasCall("print")) =>
              /\ RepoPrompts # {}
              /\ Count("input_header") = Cardinality(RepoPrompts)
              /\ Count("read_input") = Cardinality(RepoReads)
              /\ Count("config_write") = 1

C11_Witness ==
    /\ Ended /\ SetupRan /\ result = "Ok" /\ runs = 1
    /\ config_at_start[Repo] = Some("/repo") /\ config_at_start[Branch] = None
    /\ config[Repo] = Some("/repo") /\ config[Branch] = Some("dev")

\* C12: every path handed to open_pager or open_editor is the stored
\* RepositoryPath followed by "/README.md" ("/x/README.md" for "/x"); the
\* pager and the editor are each opened at most once in a run, and a view
\* run that found RepositoryPath present opened the pager exactly once.
C12_IdeaFilePath ==
    /\ \A i \in Idx : calls[i].op \in {"open_pager", "open_editor"} =>
          /\ config[Repo] # None
          /\ calls[i].arg = unwrap(config[Repo]) \o "/README.md"
          /\ config[Repo] = Some("/x") => calls[i].arg = "/x/README.md"
    /\ Count("open_pager") <= 1
    /\ Count("open_editor") <= 1
    /\ (opts.view /\ ~opts.clear_repo /\ ~opts.clear_branch /\ pc \notin {"idle", "view"}
          /\ config_at_start[Repo] # None) => Count("open_pager") = 1
    /\ ~opts.view => Count("open_pager") = 0

C12_Witness ==
    /\ opts.view /\ pc = "dispatch"
    /\ config[Repo] = Some("/x")
    /\ Count("open_pager") = 1
    /\ \E i \in Idx : calls[i].op = "open_pager" /\ calls[i].arg = "/x/README.md"
PagerOk == \E i \in Idx : calls[i].op = "open_pager" /\ calls[i].res = "Ok"

\* C13: in a run with view set, no clear flag and a successful pager open,
\* the pager call is the second recorded call, preceded only by the read of
\* RepositoryPath, so it precedes every setup or capture step; the run does
\* not end with the pager but goes on to the dispatch: when it is over it
\* has executed Setup if a key was absent (BranchName, RepositoryPath being
\* present) and Capture if both were present, with the idea prompt, the
\* editor and, the editor succeeding, the git synchronization.
C13_ViewNotExclusive ==
    (opts.view /\ ~opts.clear_repo /\ ~opts.clear_branch /\ PagerOk) =>
        /\ Len(calls) >= 2
        /\ calls[1].op = "config_read" /\ calls[1].key = Repo
        /\ calls[2].op = "open_pager"
        /\ Len(calls) = 2 => (pc = "dispatch" /\ result = "none")
        /\ Ended =>
              /\ Len(calls) > 2
              /\ IF config_at_start[Branch] = None
                 THEN SetupRan /\ ~CaptureRan
                 ELSE /\ CaptureRan /\ ~SetupRan
                      /\ HasCall("open_editor")
                      /\ EditorOk => HasCall("checkout_branch")
                      /\ (EditorOk /\ ~GitFailed) => (Len(GitCalls) = 4 /\ result = "Ok")

C13_Witness ==
    /\ Ended /\ opts.view /\ PagerOk /\ result = "Ok"
    /\ calls[2].op = "open_pager"
    /\ Len(GitCalls) = 4

\* C14: in a run with view set and no clear flag, once the view step has
\* failed (RepositoryPath absent, or open_pager returned Err) the run is
\* over with Err, and its only recorded calls are the read of RepositoryPath
\* and, that key being present, the pager call: no config dir call, banner,
\* prompt, read of a line, config write, editor or git call, and the config
\* and the git session are untouched.
C14_ViewFailure ==
    (opts.view /\ ~opts.clear_repo /\ ~opts.clear_branch /\ ViewFailed /\ pc # "view") =>
        /\ result = "Err"
        /\ pc \in {"done", "idle"}
        /\ calls[1].op = "config_read" /\ calls[1].key = Repo
        /\ IF config_at_start[Repo] = None
           THEN Len(calls) = 1
           ELSE Len(calls) = 2 /\ calls[2].op = "open_pager" /\ calls[2].res = "Err"
        /\ config = config_at_start
        /\ git = None

C14_Witness ==
    /\ Ended /\ opts.view /\ result = "Err"
    /\ config_at_start[Repo] # None /\ config_at_start[Branch] = None
    /\ Len(calls) = 2 /\ calls[2].op = "open_pager" /\ calls[2].res = "Err"
FailedAt(i) == calls[i].res = "Err" /\ i = Len(calls) /\ result = "Err" /\ pc \in {"done", "idle"}
CompletionPrinted == HasCall("print")

\* C15: in a Setup run a failed config_dir_create or config_write is the
\* last recorded call and the run is over with Err: after a failed
\* config_dir_create there is no banner, prompt or write; after a failed
\* write of RepositoryPath no branch prompt, BranchName write or completion
\* message; after a failed write of BranchName no completion message.  The
\* completion message is printed only if no create or write failed, and
\* then the run returns Ok.
C15_SetupFailure ==
    /\ \A i \in Idx : (calls[i].op \in {"config_dir_create", "config_write"} /\ calls[i].res = "Err")
          => FailedAt(i)
    /\ (\E i \in Idx : calls[i].op = "config_dir_create" /\ calls[i].res = "Err") =>
          /\ ~HasCall("fts_banner") /\ ~HasCall("input_header")
          /\ ~HasCall("read_input") /\ ~HasCall("config_write")
          /\ ~CompletionPrinted
          /\ config = config_at_start
    /\ (\E i \in RepoWrites : calls[i].res = "Err") =>
          /\ BranchPrompts = {} /\ BranchWrites = {}
          /\ ~CompletionPrinted
          /\ config = config_at_start
    /\ (\E i \in BranchWrites : calls[i].res = "Err") =>
          /\ ~CompletionPrinted
          /\ config[Branch] = None
    /\ CompletionPrinted =>
          /\ \A i \in Idx : calls[i].op \in {"config_dir_create", "config_write"} => calls[i].res = "Ok"
          /\ calls[Len(calls)].op = "print"
          /\ result = "Ok"
    /\ (SetupRan /\ Ended) => (result = "Ok" <=> CompletionPrinted)

C15_Witness ==
    /\ Ended /\ SetupRan /\ result = "Err"
    /\ config_at_start[Repo] = None /\ config_at_start[Branch] = None
    /\ \E i \in RepoWrites : calls[i].res = "Err"

CapturePcs == {"open_editor", "git_checkout", "git_add", "git_commit", "git_push"}

\* C16: the git session slot is filled only by the one Git::new call of
\* ask_for_idea: at most one Git::new per run, made after the idea prompt in
\* a run without clear flags whose view step did not fail and that found
\* both keys present, and bound to the stored RepositoryPath; a run that
\* took the clear, failed-view or setup path has an empty slot throughout.
C16_GitSessionLazy ==
    /\ Count("Git::new") <= 1
    /\ git # None <=> HasCall("Git::new")
    /\ \A i \in Idx : calls[i].op = "Git::new" =>
          /\ CaptureRan
          /\ \E j \in SummaryRead : j < i
          /\ config_at_start[Repo] # None /\ config_at_start[Branch] # None
          /\ git = Some(unwrap(config_at_start[Repo]))
          /\ calls[i].arg = unwrap(config_at_start[Repo])
          /\ pc \in CapturePcs \cup {"done", "idle"}
    /\ (opts.clear_repo \/ opts.clear_branch \/ ViewFailed \/ SetupRan) => git = None
    /\ pc \in {"idle", "clear_repo", "clear_branch", "view", "dispatch", "ask_for_idea"}
          => (git = None \/ pc = "idle")

C16_Witness ==
    /\ pc = "open_editor"
    /\ git = Some("/repo")
    /\ Count("Git::new") = 1
\* C17: in every run of every sequence of runs, capture finds what it
\* re-reads: RepositoryPath is present when ask_for_idea is entered and no
\* config_read of a capture run returns Err, BranchName is present and the
\* git session slot is filled when synchronization starts, and a run ends
\* in a panic only through a failed editor or git call.
C17_NoInvariantAbort ==
    /\ pc = "ask_for_idea" => (config[Repo] # None /\ config[Branch] # None)
    /\ pc \in CapturePcs => (config[Repo] # None /\ config[Branch] # None /\ git # None)
    /\ CaptureRan => \A i \in Idx : calls[i].op = "config_read" => calls[i].res = "Ok"
    /\ result = "panic" => (EditorFailed \/ GitFailed)
    /\ HasCall("checkout_branch") => (git # None /\ branch_name = unwrap(config[Branch]))

C17_Witness ==
    /\ runs = 1 /\ pc = "git_add"
    /\ config[Repo] = Some("dev")
    /\ git = Some("dev")
    /\ branch_name = "master"

\* C18: when a run that executed Setup has returned Ok, both keys are
\* present and RepositoryPath is not the empty string; and the run after
\* it, started without flags, asks for the idea and does not execute Setup.
C18_SetupThenCapture ==
    /\ (SetupRan /\ result = "Ok") =>
          /\ config[Repo] # None /\ config[Branch] # None
          /\ config[Repo] # Some("")
          /\ CompletionPrinted
    /\ (prev_setup_ok /\ ~opts.clear_repo /\ ~opts.clear_branch /\ ~opts.view) =>
          /\ config_at_start[Repo] # None /\ config_at_start[Branch] # None
          /\ ~SetupRan
          /\ pc \notin {"setup_dir", "setup_repo", "repo_loop", "repo_write",
                          "setup_branch", "setup_complete"}
          /\ pc \notin {"view", "dispatch", "ask_for_idea"} => CaptureRan

C18_Witness ==
    /\ prev_setup_ok /\ Ended /\ CaptureRan
    /\ ~opts.clear_repo /\ ~opts.clear_branch /\ ~opts.view
    /\ config[Branch] = Some("master")
    /\ result = "Ok"
ViewAndCapturePcs == {"view", "dispatch", "ask_for_idea"} \cup CapturePcs

\* C19: in every step of every run, a key that goes from present to absent
\* does so in the clear block of a run with a clear flag set; a key that
\* gets a (new) value gets it in a write step of the Setup Flow of a run
\* without clear flags; and the steps of view, of the dispatch and of idea
\* capture, git synchronization and its failures included, as well as the
\* start and the end of a run, leave both keys as they are.
C19_ConfigFrame ==
    [][ /\ \A k \in ConfigFile :
             /\ (config[k] # None /\ config'[k] = None) =>
                   /\ opts.clear_repo \/ opts.clear_branch
                   /\ pc \in {"clear_repo", "clear_branch"}
             /\ (config'[k] # None /\ config'[k] # config[k]) =>
                   /\ ~opts.clear_repo /\ ~opts.clear_branch
                   /\ pc \in {"repo_write", "setup_branch"}
                   /\ SetupRan
        /\ pc \in ViewAndCapturePcs \cup {"idle", "done"} => config' = config
      ]_vars

C19_Witness ==
    /\ runs = 1 /\ Ended /\ GitFailed /\ opts.view
    /\ config[Repo] = Some("dev")
    /\ config = config_at_start

KeyCalls(key) == {i \in Idx : calls[i].key = key}

\* C20 as stated: in a run with both clear flags set every call on
\* RepositoryPath precedes every call on BranchName; if RepositoryPath was
\* absent the run returns Err with no read or removal of BranchName; if
\* RepositoryPath was present and BranchName absent the run returns Err
\* after having removed RepositoryPath.
C20_AsStated ==
    (opts.clear_repo /\ opts.clear_branch) =>
        /\ \A i \in KeyCalls(Repo), j \in KeyCalls(Branch) : i < j
        /\ (config_at_start[Repo] = None /\ pc # "clear_repo") =>
              /\ KeyCalls(Branch) = {}
              /\ result = "Err"
        /\ (Ended /\ config_at_start[Repo] # None /\ config_at_start[Branch] = None) =>
              /\ result = "Err"
              /\ config[Repo] = None

\* C20 amended: in a run with both clear flags set every call on
\* RepositoryPath precedes every call on BranchName, BranchName is touched
\* only after a successful removal of RepositoryPath, and a call that
\* returned Err is the last call of the run, which returns Err.  If
\* RepositoryPath was absent the run returns Err with no read or removal of
\* BranchName and the config as it was; if RepositoryPath was present and
\* BranchName absent the run returns Err, having removed RepositoryPath if
\* that removal succeeded, and with the config as it was and BranchName
\* never read if it failed.
C20_ClearOrder ==
    (opts.clear_repo /\ opts.clear_branch) =>
        /\ \A i \in KeyCalls(Repo), j \in KeyCalls(Branch) : i < j
        /\ KeyCalls(Branch) # {} =>
              \E i \in KeyCalls(Repo) : calls[i].op = "file_rm" /\ calls[i].res = "Ok"
        /\ \A i \in Idx : calls[i].res = "Err" =>
              (i = Len(calls) /\ result = "Err" /\ pc \in {"done", "idle"})
        /\ (config_at_start[Repo] = None /\ pc # "clear_repo") =>
              /\ KeyCalls(Branch) = {}
              /\ Len(calls) = 1
              /\ result = "Err"
              /\ config = config_at_start
        /\ (Ended /\ config_at_start[Repo] # None /\ config_at_start[Branch] = None) =>
              /\ result = "Err"
              /\ IF RmFailed(Repo)
                 THEN /\ config = config_at_start
                      /\ KeyCalls(Branch) = {}
                      /\ Len(calls) = 2
                 ELSE /\ config[Repo] = None
                      /\ Len(calls) = 3 /\ calls[2].op = "file_rm" /\ calls[2].key = Repo
                      /\ calls[3].op = "config_read" /\ calls[3].key = Branch
                      /\ calls[3].res = "Err"

C20_Witness ==
    /\ Ended /\ opts.clear_repo /\ opts.clear_branch
    /\ config_at_start[Repo] # None /\ config_at_start[Branch] = None
    /\ result = "Err" /\ config[Repo] = None
====
